---- MODULE Spec2Model ----
(***************************************************************************)
(* Gallery API route (GET / POST / PUT / DELETE over a blob store) and the *)
(* record normalisation performed by the listing.                          *)
(***************************************************************************)
EXTENDS Integers, Sequences, FiniteSets, TLC

VARIABLES
  store,     \* the blob store: pathname -> blob
  pc,        \* per request: the await it is suspended at
  rq,        \* per request: method, query parameters and body
  lidx,      \* per request: folders of folderPaths already listed
  allBlobs,  \* per request: allBlobs, the pathnames list() returned so far
  fidx,      \* GET: JSON files already fetched
  items,     \* GET: items
  resp,      \* per request: the response
  clock,     \* the wall clock read by new Date()
  seen,      \* GET: the raw values handed to pushItem so far (history)
  wrote,     \* the requests whose put of a JSON blob succeeded, in order (history)
  calls,     \* per request: the storage and fetch calls made so far, each with
             \*   whether it succeeded (history)
  galleryItem, \* POST: galleryItem, the record to be written
  scrollerRef,    \* the scroller element, its sizes
  innerWidth,     \* window.innerWidth
  scrollLeft,     \* el.scrollLeft
  scrollAnimRef,  \* the handle of the frame requested last, or NoHandle
  scrollStateRef, \* the animation: start, from, to, duration, or NoState
  rafQueue,       \* the handles of the frame callbacks pending
  rafNext,        \* the last handle requestAnimationFrame returned
  perfNow,        \* performance.now()
  clicked,        \* the clicks so far and the target of the last one (history)
  nraw,      \* normalisation of a single value: the raw value
  ntype,     \*   the type parameter of the request
  nout       \*   what pushItem appended

vars ==
  <<store, pc, rq, lidx, allBlobs, fidx, items, resp, clock, seen, wrote, calls,
    galleryItem, nraw, ntype, nout,
    scrollerRef, innerWidth, scrollLeft, scrollAnimRef, scrollStateRef, rafQueue,
    rafNext, perfNow, clicked>>

(***************************************************************************)
(* JSON values.  A scalar is a tuple <<typeof, text>>; an object is a      *)
(* function from the field names read by the route to scalars.             *)
(***************************************************************************)
Undefined == <<"undefined", "">>
Str(s) == <<"string", s>>
Num(s) == <<"number", s>>
True == <<"boolean", "true">>
False == <<"boolean", "false">>

Fields ==
  {"id", "title", "name", "content", "description", "author", "developer",
   "type", "status", "isPublished", "publishDate", "uploadDate", "store",
   "appCategory"}

EmptyFields == [k \in Fields |-> Undefined]

\* A raw JSON value as pushItem sees it: k is what the value is ("object",
\* "array", "null", "number", "string"), f its fields when it is an object.
Obj(f) == [k |-> "object", f |-> f]
NonObj(kind) == [k |-> kind, f |-> EmptyFields]

\* JavaScript truthiness of a scalar (the operand of || and of !x).
Truthy(v) ==
  CASE v[1] = "string" -> v[2] # ""
    [] v[1] = "number" -> v[2] # "0"
    [] v[1] = "boolean" -> v[2] = "true"
    [] OTHER -> FALSE

\* a || b
OrElse(a, b) == IF Truthy(a) THEN a ELSE b

(***************************************************************************)
(* Dates.  Time is a small integer; toISOString and the Date constructor's *)
(* parse are tables, so that distinct strings may denote the same time and *)
(* a string may denote no time at all (NaN).                               *)
(***************************************************************************)
NaN == -1

IsoTable ==
  <<"1970-01-01T00:00:00.000Z", "2024-01-01T00:00:00.000Z",
    "2024-06-01T00:00:00.000Z", "2026-01-01T00:00:00.000Z",
    "2026-01-01T00:00:00.001Z", "2026-01-01T00:00:00.002Z",
    "2026-01-01T00:00:00.003Z", "2026-01-01T00:00:00.004Z">>

\* new Date(t).toISOString(), t counted from the epoch (index 0)
toISOString(t) == IsoTable[t + 1]

\* new Date(s).getTime(): the time a string denotes, NaN when it denotes none
DateParse(s) ==
  IF \E i \in 1..Len(IsoTable) : IsoTable[i] = s
    THEN (CHOOSE i \in 1..Len(IsoTable) : IsoTable[i] = s) - 1
    ELSE CASE s = "2024-01-01" -> 1
           [] s = "2024-06-01" -> 2
           [] OTHER -> NaN

\* the clock reading of the first new Date() of a request
StartClock == DateParse("2026-01-01T00:00:00.000Z")

(***************************************************************************)
(* pushItem: normalisation of one raw value (GET, lines 79-149)            *)
(***************************************************************************)
Types == {"gallery", "featured", "events", "normal"}
Statuses == {"published", "in-review", "development"}

getStr(r, k) == IF r[k][1] = "string" THEN r[k] ELSE Undefined

pickTypeBug(r, type) == type
pickType(r, type) ==
  LET t == getStr(r, "type")
  IN  IF t[1] = "string" /\ t[2] \in Types THEN t[2]
      ELSE IF type # "" THEN type ELSE "gallery"

pickStatusPass(r) ==
  LET s == getStr(r, "status")
  IN  IF s[1] = "string" /\ s[2] # "" THEN s[2]
      ELSE IF r["isPublished"] = True THEN "published" ELSE "development"
pickStatus(r) ==
  LET s == getStr(r, "status")
  IN  IF s[1] = "string" /\ s[2] \in Statuses THEN s[2]
      ELSE IF r["isPublished"] = True THEN "published" ELSE "development"

pickStore(r) ==
  IF getStr(r, "store") = Str("app-store") THEN "app-store" ELSE "google-play"

pickCategory(r, type) ==
  LET c == getStr(r, "appCategory")
  IN  IF c[1] = "string" /\ c[2] \in {"featured", "events", "normal"} THEN c[2]
      ELSE IF type = "featured" THEN "featured"
      ELSE IF type = "events" THEN "events"
      ELSE "normal"

\* getStr(a) || getStr(b) || dflt, as a string
firstStrLegacy(r, a, b, dflt) ==
  OrElse(OrElse(getStr(r, b), getStr(r, a)), Str(dflt))[2]
firstStr(r, a, b, dflt) ==
  OrElse(OrElse(getStr(r, a), getStr(r, b)), Str(dflt))[2]

isPublishedStatusOnly(r) == pickStatus(r) = "published"
isPublishedOf(r) == r["isPublished"] = True \/ pickStatus(r) = "published"

\* the object literal of lines 117-147, for the fields the route itself reads
\* back or that have an alias; now is the reading of new Date()
normalized(r, type, now) ==
  [ id          |-> r["id"][2],
    title       |-> firstStr(r, "title", "name", ""),
    content     |-> firstStr(r, "content", "description", ""),
    author      |-> firstStr(r, "author", "developer", ""),
    publishDate |-> firstStr(r, "publishDate", "uploadDate", toISOString(now)),
    isPublished |-> isPublishedOf(r),
    type        |-> pickType(r, type),
    store       |-> pickStore(r),
    appCategory |-> pickCategory(r, type),
    status      |-> pickStatus(r),
    name        |-> firstStr(r, "name", "title", ""),
    developer   |-> firstStr(r, "developer", "author", ""),
    description |-> firstStr(r, "description", "content", ""),
    uploadDate  |-> firstStr(r, "uploadDate", "publishDate", toISOString(now)) ]

\* the two early returns of pushItem (lines 81-83): TRUE when raw is pushed
acceptsAnyId(raw) == raw.k \in {"object", "array"} /\ raw.f["id"][1] # "undefined"
accepts(raw) ==
  /\ raw.k \in {"object", "array"}
  /\ raw.f["id"][1] = "string"
  /\ raw.f["id"][2] # ""

\* pushItem(raw): the items it appends (none or one)
pushItem(raw, type, now) ==
  IF accepts(raw) THEN <<normalized(raw.f, type, now)>> ELSE <<>>

(***************************************************************************)
(* Inputs of the normalisation: raw values as they may be stored.          *)
(***************************************************************************)
AliasRaws ==
  { Obj([EmptyFields EXCEPT !["id"] = Str("a1"),
           !["title"] = c[1], !["name"] = c[2],
           !["content"] = c[3], !["description"] = c[4],
           !["author"] = c[5], !["developer"] = c[6]]) :
      c \in {Undefined, Num("7"), Str(""), Str("Foo")}
           \X {Undefined, Str(""), Str("Bar"), Str("Foo")}
           \X {Undefined, Str(""), Str("Body")} \X {Undefined, Str("Desc")}
           \X {Undefined, Str(""), Str("Ann")} \X {Undefined, Str("Dev")} }

StatusRaws ==
  { Obj([EmptyFields EXCEPT !["id"] = c[1], !["type"] = c[2],
           !["status"] = c[3], !["isPublished"] = c[4]]) :
      c \in {Undefined, Num("7"), Str(""), Str("a1")}
           \X {Undefined, Num("7"), Str("gallery"), Str("featured"),
               Str("events"), Str("normal"), Str("bogus")}
           \X {Undefined, Num("7"), Str(""), Str("published"),
               Str("in-review"), Str("development"), Str("archived")}
           \X {Undefined, True, False, Str("true")} }

DateRaws ==
  { Obj([EmptyFields EXCEPT !["id"] = Str("a1"), !["name"] = Str("Foo"),
           !["isPublished"] = True,
           !["uploadDate"] = c[1], !["publishDate"] = c[2],
           !["store"] = c[3], !["appCategory"] = c[4]]) :
      c \in {Undefined, Str(""), Str("2024-01-01"), Str("garbage")}
           \X {Undefined, Str("2024-06-01")}
           \X {Undefined, Str("app-store"), Str("amazon")}
           \X {Undefined, Str("events"), Str("gallery")} }

NonObjects == {NonObj("null"), NonObj("number"), NonObj("string"), NonObj("array")}

NormRaws == AliasRaws \cup StatusRaws \cup DateRaws \cup NonObjects

(***************************************************************************)
(* The blob store.  A pathname is folder/id.ext; list() returns the        *)
(* pathnames under a prefix, fetch and JSON.parse give the stored value.   *)
(***************************************************************************)
Folders == {"gallery-gallery", "gallery-normal", "gallery-featured", "gallery-events"}
FileOrder ==
  << [id |-> "a", ext |-> "json"], [id |-> "a", ext |-> "png"],
     [id |-> "b", ext |-> "json"], [id |-> "b", ext |-> "png"] >>
Path(folder, id, ext) == [folder |-> folder, id |-> id, ext |-> ext]
Paths == { Path(fo, FileOrder[i].id, FileOrder[i].ext) :
             fo \in Folders, i \in 1..Len(FileOrder) }

\* what a blob holds once fetched and parsed: k is "object", "array", "null",
\* "number", "string", or "invalid" for a body JSON.parse rejects (an image)
NoData == [k |-> "null", f |-> EmptyFields, elems |-> <<>>]
ObjData(f) == [k |-> "object", f |-> f, elems |-> <<>>]
ArrData(es) == [k |-> "array", f |-> EmptyFields, elems |-> es]
OtherData(kind) == [k |-> kind, f |-> EmptyFields, elems |-> <<>>]

\* the store is a function from the pathnames that exist to what they hold
EmptyStore == [q \in {} |-> NoData]
putBlob(st, q, d) == [x \in DOMAIN st \cup {q} |-> IF x = q THEN d ELSE st[x]]
delBlob(st, q) == [x \in DOMAIN st \ {q} |-> st[x]]

\* list({prefix: folder + "/"}): the pathnames under the folder
listFolder(st, folder) ==
  LET all == [i \in 1..Len(FileOrder) |->
                Path(folder, FileOrder[i].id, FileOrder[i].ext)]
  IN  SelectSeq(all, LAMBDA q : q \in DOMAIN st)

(***************************************************************************)
(* Requests                                                                *)
(***************************************************************************)
Procs == {1, 2, 3}
\* the fields of a form-encoded body; "" is a field that is absent
NoForm ==
  [title |-> "", content |-> "", author |-> "", isPublished |-> "", status |-> "",
   store |-> "", appCategory |-> "", file |-> ""]
\* body is "item" when the JSON body of the request has an item, "form" when
\* the body is form-encoded
NoRequest ==
  [method |-> "", type |-> "", id |-> "", body |-> "", item |-> EmptyFields,
   form |-> NoForm]
NoResponse == [status |-> 0, body |-> <<>>]

Quiet ==
  /\ store = EmptyStore
  /\ pc = [p \in Procs |-> "idle"]
  /\ rq = [p \in Procs |-> NoRequest]
  /\ lidx = [p \in Procs |-> 0]
  /\ allBlobs = [p \in Procs |-> <<>>]
  /\ fidx = [p \in Procs |-> 0]
  /\ items = [p \in Procs |-> <<>>]
  /\ resp = [p \in Procs |-> NoResponse]
  /\ clock = StartClock
  /\ seen = [p \in Procs |-> <<>>]
  /\ wrote = <<>>
  /\ calls = [p \in Procs |-> <<>>]
  /\ galleryItem = [p \in Procs |-> EmptyFields]

routeVars ==
  <<store, pc, rq, lidx, allBlobs, fidx, items, resp, clock, seen, wrote, calls,
    galleryItem>>

normVars == <<nraw, ntype, nout>>

(***************************************************************************)
(* The horizontal scroller of the gallery (gallery-manager.tsx, lines      *)
(* 34-115).  Positions are whole pixels and times whole milliseconds;      *)
(* requestAnimationFrame hands out increasing handles, and a frame runs    *)
(* the callbacks pending when it begins.                                   *)
(***************************************************************************)
\* scrollAnimRef.current === null
NoHandle == 0
\* scrollStateRef.current === null
NoState == [start |-> 0, from |-> 0, to |-> 0, duration |-> 0]
\* scrollerRef.current === null
NoElement ==
  [mounted |-> FALSE, clientWidth |-> 0, scrollWidth |-> 0, firstItem |-> <<>>, gap |-> 0]

Max(a, b) == IF a >= b THEN a ELSE b
Min(a, b) == IF a <= b THEN a ELSE b
Abs(a) == IF a >= 0 THEN a ELSE 0 - a

\* el.scrollLeft = value: the element keeps the position within what it can
\* scroll, 0 to scrollWidth - clientWidth
setScrollLeft(el, value) == Max(0, Min(el.scrollWidth - el.clientWidth, value))

\* lines 60-73; firstItem is <<>> when the scroller has no child, gap is NaN
\* when the computed gap is no number
amountOf(el, width) ==
  IF width < 640
    THEN (IF el.firstItem = <<>> THEN 170 ELSE el.firstItem[1])
           + (IF el.gap # NaN THEN el.gap ELSE 0)
    ELSE Max(320, (el.clientWidth * 9) \div 10)

pxPerSecond == 1600
\* line 83
durationOf(amount) == Max(220, Min(600, (Abs(amount) * 1000) \div pxPerSecond))

\* easeInOutQuad(t) for t = e / d, times d * d (line 92)
easeInOutQuad(e, d) ==
  IF 2 * e < d THEN 2 * e * e ELSE 4 * e * d - 2 * e * e - d * d

\* from + (to - from) * eased (line 104), in whole pixels
valueAt(s, e) ==
  LET moved == (Abs(s.to - s.from) * easeInOutQuad(e, s.duration))
                 \div (s.duration * s.duration)
  IN  IF s.to >= s.from THEN s.from + moved ELSE s.from - moved

\* What the handlers read and write: w.scrollLeft, w.anim (scrollAnimRef),
\* w.state (scrollStateRef), w.todo (the callbacks of the frame being run
\* that have not run yet), w.queue (the callbacks pending for the next
\* frame), w.next (the last handle handed out).
cancelLeavesFrame(w) == [w EXCEPT !.anim = NoHandle, !.state = NoState]
\* lines 45-51
cancelScrollAnimation(w) ==
  IF w.anim # NoHandle
    THEN [w EXCEPT !.todo = @ \ {w.anim}, !.queue = @ \ {w.anim},
                   !.anim = NoHandle, !.state = NoState]
    ELSE [w EXCEPT !.state = NoState]

\* scrollAnimRef.current = requestAnimationFrame(step)
requestFrame(w) ==
  [w EXCEPT !.next = @ + 1, !.queue = @ \cup {w.next + 1}, !.anim = w.next + 1]

\* step(ts), lines 94-112
step(w, ts, el) ==
  IF w.state = NoState THEN w
  ELSE LET s == w.state
           e == Max(0, Min(s.duration, ts - s.start))
           w1 == [w EXCEPT !.scrollLeft = setScrollLeft(el, valueAt(s, e))]
       IN  IF e < s.duration THEN requestFrame(w1) ELSE cancelScrollAnimation(w1)

RECURSIVE runCallbacks(_, _, _)
\* a frame runs its callbacks in the order they were requested
runCallbacks(w, ts, el) ==
  IF w.todo = {} THEN w
  ELSE LET h == CHOOSE x \in w.todo : \A y \in w.todo : x <= y
       IN  runCallbacks(step([w EXCEPT !.todo = @ \ {h}], ts, el), ts, el)

World(todo, queue) ==
  [scrollLeft |-> scrollLeft, anim |-> scrollAnimRef, state |-> scrollStateRef,
   todo |-> todo, queue |-> queue, next |-> rafNext]

Becomes(w) ==
  /\ scrollLeft' = w.scrollLeft
  /\ scrollAnimRef' = w.anim
  /\ scrollStateRef' = w.state
  /\ rafQueue' = w.queue
  /\ rafNext' = w.next

\* a click on a scroll button dt ms after the last event: scrollByStep(dir),
\* lines 55-115
scrollByStep(dir, dt) ==
  /\ perfNow' = perfNow + dt
  /\ IF ~scrollerRef.mounted
       THEN /\ clicked' = [clicked EXCEPT !.n = @ + 1]
            /\ UNCHANGED <<scrollLeft, scrollAnimRef, scrollStateRef, rafQueue, rafNext>>
       ELSE LET amount == amountOf(scrollerRef, innerWidth)
                from == scrollLeft
                to == from + dir * amount
                w1 == cancelScrollAnimation(World({}, rafQueue))
                w2 == [w1 EXCEPT !.state = [start |-> perfNow', from |-> from, to |-> to,
                                            duration |-> durationOf(amount)]]
            IN  /\ Becomes(requestFrame(w2))
                /\ clicked' = [n |-> clicked.n + 1, to |-> to]
  /\ UNCHANGED <<scrollerRef, innerWidth>>

\* the next frame, dt ms after the last event, runs the pending callbacks
\* with its time as ts
Frame(dt) ==
  /\ rafQueue # {}
  /\ perfNow' = perfNow + dt
  /\ Becomes(runCallbacks(World(rafQueue, {}), perfNow', scrollerRef))
  /\ UNCHANGED <<scrollerRef, innerWidth, clicked>>

\* the most clicks in a behaviour
MaxClicks == 2

Element(clientWidth, scrollWidth, firstItem, gap) ==
  [mounted |-> TRUE, clientWidth |-> clientWidth, scrollWidth |-> scrollWidth,
   firstItem |-> firstItem, gap |-> gap]

\* window.innerWidth and the scroller: a wide window, a narrow one, a phone,
\* a phone whose scroller is empty, and no scroller
Layouts ==
  { <<1280, Element(1200, 3000, <<170>>, 16)>>,
    <<800, Element(712, 1500, <<170>>, 16)>>,
    <<390, Element(390, 1000, <<170>>, 16)>>,
    <<390, Element(390, 390, <<>>, NaN)>>,
    <<1280, NoElement>> }

ClickGaps == {0, 50}
FrameGaps == {100, 250}

ScrollIdle ==
  /\ scrollAnimRef = NoHandle
  /\ scrollStateRef = NoState
  /\ rafQueue = {}
  /\ rafNext = 0
  /\ perfNow = 0
  /\ clicked = [n |-> 0, to |-> 0]

NoScroller ==
  /\ scrollerRef = NoElement
  /\ innerWidth = 0
  /\ scrollLeft = 0
  /\ ScrollIdle

scrollVars ==
  <<scrollerRef, innerWidth, scrollLeft, scrollAnimRef, scrollStateRef, rafQueue,
    rafNext, perfNow, clicked>>

InitScroll ==
  /\ Quiet
  /\ nraw = NonObj("null")
  /\ ntype = "gallery"
  /\ nout = [done |-> FALSE, out |-> <<>>]
  /\ \E l \in Layouts :
       /\ innerWidth = l[1]
       /\ scrollerRef = l[2]
       /\ scrollLeft \in {0, l[2].scrollWidth - l[2].clientWidth,
                          Min(400, l[2].scrollWidth - l[2].clientWidth)}
  /\ ScrollIdle

Click ==
  \E dir \in {-1, 1}, dt \in ClickGaps :
    clicked.n < MaxClicks /\ scrollByStep(dir, dt) /\ UNCHANGED <<routeVars, normVars>>

NextFrame == \E dt \in FrameGaps : Frame(dt) /\ UNCHANGED <<routeVars, normVars>>

NextScroll ==
  \/ Click
  \/ NextFrame

\* the browser runs a frame as long as a callback is pending
SpecScroll == InitScroll /\ [][NextScroll]_vars /\ WF_vars(NextFrame)

(***************************************************************************)
(* Normalisation of one raw value, for every raw value of NormRaws and     *)
(* every type parameter that selects a folder.                             *)
(***************************************************************************)
InitNorm ==
  /\ Quiet
  /\ nraw \in NormRaws
  /\ ntype \in Types
  /\ nout = [done |-> FALSE, out |-> <<>>]
  /\ NoScroller

Normalise ==
  /\ ~nout.done
  /\ nout' = [done |-> TRUE, out |-> pushItem(nraw, ntype, clock)]
  /\ UNCHANGED <<nraw, ntype, routeVars, scrollVars>>

NextNorm == Normalise

SpecNorm == InitNorm /\ [][NextNorm]_vars

(***************************************************************************)
(* GET: the listing (lines 39-191)                                         *)
(***************************************************************************)
\* the most the clock advances during a behaviour
MaxTicks == 1

\* folderPaths, in insertion order (lines 49-57)
folderPaths(type) ==
  CASE type \in {"gallery", "normal"} -> <<"gallery-gallery", "gallery-normal">>
    [] type = "featured" -> <<"gallery-featured">>
    [] type = "events" -> <<"gallery-events">>
    [] OTHER -> <<>>

endsWithJson(q) == q.ext = "json"

\* jsonFiles (line 68)
jsonFilesOf(blobs) == SelectSeq(blobs, endsWithJson)

RECURSIVE pushAll(_, _, _)
\* data.forEach(pushItem)
pushAll(elems, type, now) ==
  IF elems = <<>> THEN <<>>
  ELSE pushItem(Head(elems), type, now) \o pushAll(Tail(elems), type, now)

\* the raw values of a parsed body: its elements, or itself
rawsOf(data) ==
  CASE data.k = "invalid" -> <<>>
    [] data.k = "array" -> data.elems
    [] OTHER -> << [k |-> data.k, f |-> data.f] >>

pushDataUnparsed(data, type, now) ==
  CASE data.k = "array" -> pushAll(data.elems, type, now)
    [] data.k = "object" /\ Truthy(data.f["id"]) ->
         pushItem([k |-> "object", f |-> data.f], type, now)
    [] OTHER -> pushItem(Obj([EmptyFields EXCEPT !["id"] = Str("?")]), type, now)
\* lines 78-155: what one fetched body appends to items
pushData(data, type, now) ==
  CASE data.k = "invalid" -> <<>>
    [] data.k = "array" -> pushAll(data.elems, type, now)
    [] data.k = "object" /\ Truthy(data.f["id"]) ->
         pushItem([k |-> "object", f |-> data.f], type, now)
    [] OTHER -> <<>>

keepAll(item, type) == TRUE
keepPublishedOnly(item, type) == item.isPublished
\* the predicate of the filter of lines 163-174
keep(item, type) ==
  IF type = "gallery" \/ type = "normal"
    THEN item.isPublished \/ item.status = "in-review" \/ item.status = "published"
    ELSE item.isPublished

filterItems(its, type) == SelectSeq(its, LAMBDA it : keep(it, type))

\* new Date(a.uploadDate || a.publishDate || 0).getTime()
sortTime(item) ==
  DateParse(IF item.uploadDate # "" THEN item.uploadDate
            ELSE IF item.publishDate # "" THEN item.publishDate
            ELSE toISOString(0))

\* the comparator of lines 176-180; sort reads a NaN result as +0
compareFn(a, b) ==
  IF sortTime(a) = NaN \/ sortTime(b) = NaN THEN 0 ELSE sortTime(b) - sortTime(a)

(***************************************************************************)
(* Array.prototype.sort as the runtime of the route (Node.js, V8) performs *)
(* it on an array shorter than 64: the leading run is found (and reversed  *)
(* when strictly descending), then the remaining elements are inserted by  *)
(* binary search.  Indices are counted from 1.                             *)
(***************************************************************************)
RECURSIVE runEnd(_, _, _)
\* the length of the run that starts at a[1], idx being the next index to try
runEnd(a, idx, descending) ==
  IF idx > Len(a) THEN Len(a)
  ELSE LET order == compareFn(a[idx], a[idx - 1])
       IN  IF (descending /\ order >= 0) \/ (~descending /\ order < 0)
             THEN idx - 1
             ELSE runEnd(a, idx + 1, descending)

reverseSeq(a) == [i \in 1..Len(a) |-> a[Len(a) + 1 - i]]

RECURSIVE searchLeft(_, _, _, _)
\* the binary search of the insertion: left and right count from 0
searchLeft(a, pivot, left, right) ==
  IF left >= right THEN left
  ELSE LET mid == left + ((right - left) \div 2)
       IN  IF compareFn(pivot, a[mid + 1]) < 0
             THEN searchLeft(a, pivot, left, mid)
             ELSE searchLeft(a, pivot, mid + 1, right)

RECURSIVE insertFrom(_, _)
\* a[1..start-1] is sorted; insert a[start], a[start+1], ...
insertFrom(a, start) ==
  IF start > Len(a) THEN a
  ELSE LET left == searchLeft(a, a[start], 0, start - 1)
           moved == SubSeq(a, 1, left) \o <<a[start]>>
                      \o SubSeq(a, left + 1, start - 1)
                      \o SubSeq(a, start + 1, Len(a))
       IN  insertFrom(moved, start + 1)

\* filteredItems.sort(compareFn)
arraySort(a) ==
  IF Len(a) < 2 THEN a
  ELSE LET descending == compareFn(a[2], a[1]) < 0
           run == runEnd(a, 3, descending)
           made == IF descending
                     THEN reverseSeq(SubSeq(a, 1, run)) \o SubSeq(a, run + 1, Len(a))
                     ELSE a
       IN  insertFrom(made, run + 1)

Respond(p, status, body) ==
  /\ resp' = [resp EXCEPT ![p] = [status |-> status, body |-> body]]
  /\ pc' = [pc EXCEPT ![p] = "done"]

catchAsEmpty(p) == Respond(p, 200, <<>>)
\* the catch of a handler: an await that threw is answered 500
catchError(p) == Respond(p, 500, <<>>)

\* the request made a storage or fetch call, which succeeded or did not
Called(p, op, ok) ==
  calls' = [calls EXCEPT ![p] = Append(@, [op |-> op, ok |-> ok])]

\* filter, sort and respond (lines 162-186)
RespondListing(p, its) ==
  Respond(p, 200, arraySort(filterItems(its, rq[p].type)))

\* a request begins on a connection that serves none
Free(p) == pc[p] \in {"idle", "done"}

Begin(p, request) ==
  /\ Free(p)
  /\ rq' = [rq EXCEPT ![p] = request]
  /\ lidx' = [lidx EXCEPT ![p] = 0]
  /\ allBlobs' = [allBlobs EXCEPT ![p] = <<>>]
  /\ fidx' = [fidx EXCEPT ![p] = 0]
  /\ items' = [items EXCEPT ![p] = <<>>]
  /\ seen' = [seen EXCEPT ![p] = <<>>]
  /\ calls' = [calls EXCEPT ![p] = <<>>]
  /\ galleryItem' = [galleryItem EXCEPT ![p] = EmptyFields]

\* lines 40-57: up to the first await
GETStart(p, type) ==
  /\ Begin(p, [NoRequest EXCEPT !.method = "GET", !.type = type])
  /\ IF type = "" THEN Respond(p, 400, <<>>)
     ELSE IF folderPaths(type) = <<>> THEN Respond(p, 200, <<>>)
     ELSE /\ pc' = [pc EXCEPT ![p] = "GET_list"]
          /\ resp' = [resp EXCEPT ![p] = NoResponse]
  /\ UNCHANGED <<store, clock, wrote>>

\* one await list(...) of lines 60-65, and what follows the last of them
GETList(p) ==
  /\ pc[p] = "GET_list"
  /\ \/ /\ catchError(p)
        /\ Called(p, "list", FALSE)
        /\ UNCHANGED <<lidx, allBlobs>>
     \/ LET folder == folderPaths(rq[p].type)[lidx[p] + 1]
            blobs == allBlobs[p] \o listFolder(store, folder)
        IN  /\ Called(p, "list", TRUE)
            /\ lidx' = [lidx EXCEPT ![p] = @ + 1]
            /\ allBlobs' = [allBlobs EXCEPT ![p] = blobs]
            /\ IF lidx[p] + 1 < Len(folderPaths(rq[p].type))
                 THEN UNCHANGED <<pc, resp>>
               ELSE IF jsonFilesOf(blobs) = <<>>
                 THEN Respond(p, 200, <<>>)
               ELSE /\ pc' = [pc EXCEPT ![p] = "GET_fetch"]
                    /\ UNCHANGED resp
  /\ UNCHANGED <<store, rq, fidx, items, clock, seen, wrote, galleryItem>>

\* one await fetch(...) of lines 73-160 with the parse of its body, and what
\* follows the last of them.  The fetch fails, or answers not ok when the blob
\* is gone; the elements of one body are normalised at one clock reading.
GETFetch(p) ==
  /\ pc[p] = "GET_fetch"
  /\ LET file == jsonFilesOf(allBlobs[p])[fidx[p] + 1]
         last == fidx[p] + 1 = Len(jsonFilesOf(allBlobs[p]))
     IN  \E ok \in BOOLEAN, now \in clock..(StartClock + MaxTicks) :
           LET read == ok /\ file \in DOMAIN store
               its == IF read
                        THEN items[p] \o pushData(store[file], rq[p].type, now)
                        ELSE items[p]
           IN  /\ now \in {clock, clock + 1}
               /\ clock' = now
               /\ fidx' = [fidx EXCEPT ![p] = @ + 1]
               /\ items' = [items EXCEPT ![p] = its]
               /\ seen' = [seen EXCEPT ![p] =
                            IF read THEN @ \o rawsOf(store[file]) ELSE @]
               /\ Called(p, "fetch", read)
               /\ IF last THEN RespondListing(p, its)
                  ELSE UNCHANGED <<pc, resp>>
  /\ UNCHANGED <<store, rq, lidx, allBlobs, wrote, galleryItem>>

(***************************************************************************)
(* The listing over stored content of every shape.  The same two bodies,   *)
(* at most one of them an array, are stored under each type's folders, one *)
(* per folder where there are two, beside an image.                        *)
(***************************************************************************)
\* the longest array stored
MaxArr == 2

Rec(id, status, pub, upload, publish) ==
  [EmptyFields EXCEPT !["id"] = id, !["status"] = status,
     !["isPublished"] = pub, !["uploadDate"] = upload, !["publishDate"] = publish]

ListObjects ==
  { Rec(Num("7"), Str("published"), True, Str("2024-01-01"), Undefined),
    Rec(Undefined, Str("published"), True, Str("2024-01-01"), Undefined),
    Rec(Str(""), Str("published"), True, Str("2024-01-01"), Undefined),
    Rec(Str("x"), Undefined, Undefined, Str("2024-01-01"), Undefined),
    Rec(Str("x"), Str("in-review"), Undefined, Str("2024-01-01"), Undefined),
    Rec(Str("x"), Str("in-review"), True, Str("2024-01-01"), Undefined),
    Rec(Str("x"), Str("development"), True, Str("2024-01-01"), Undefined),
    Rec(Str("x"), Str("archived"), True, Str("2024-01-01"), Undefined),
    Rec(Str("x"), Str("published"), False, Str("2024-01-01"), Undefined),
    Rec(Str("y"), Undefined, True, Undefined, Undefined),
    Rec(Str("y"), Undefined, True, Str("2024-06-01"), Undefined),
    Rec(Str("y"), Undefined, True, Str("garbage"), Undefined),
    Rec(Str("y"), Undefined, True, Str(""), Str("2024-01-01")) }

ListElems ==
  { Obj(Rec(Str("p"), Undefined, True, Str("2024-06-01T00:00:00.000Z"), Undefined)),
    Obj(Rec(Str("q"), Str("in-review"), Undefined, Str("garbage"), Undefined)),
    Obj(Rec(Num("7"), Undefined, True, Str("2024-01-01"), Undefined)),
    NonObj("null") }

RECURSIVE seqsUpTo(_, _)
seqsUpTo(S, n) ==
  IF n = 0 THEN {<<>>}
  ELSE seqsUpTo(S, n - 1)
         \cup { Append(s, e) : s \in { t \in seqsUpTo(S, n - 1) : Len(t) = n - 1 }, e \in S }

ListContents ==
  { ObjData(f) : f \in ListObjects }
    \cup { ArrData(es) : es \in seqsUpTo(ListElems, MaxArr) }
    \cup { OtherData("invalid"), OtherData("null"), OtherData("number") }

listStore(c1, c2) ==
  [ q \in { Path("gallery-gallery", "a", "json"), Path("gallery-normal", "a", "json"),
            Path("gallery-featured", "a", "json"), Path("gallery-featured", "b", "json"),
            Path("gallery-events", "a", "json"), Path("gallery-events", "b", "json"),
            Path("gallery-gallery", "a", "png"), Path("gallery-featured", "a", "png") }
      |-> IF q.ext = "png" THEN OtherData("invalid")
          ELSE IF q.id = "a" /\ q.folder # "gallery-normal" THEN c1 ELSE c2 ]

InitList ==
  /\ \E c1, c2 \in ListContents :
       /\ c1.k # "array" \/ c2.k # "array"
       /\ store = listStore(c1, c2)
  /\ pc = [p \in Procs |-> "idle"]
  /\ rq = [p \in Procs |-> NoRequest]
  /\ lidx = [p \in Procs |-> 0]
  /\ allBlobs = [p \in Procs |-> <<>>]
  /\ fidx = [p \in Procs |-> 0]
  /\ items = [p \in Procs |-> <<>>]
  /\ resp = [p \in Procs |-> NoResponse]
  /\ clock = StartClock
  /\ seen = [p \in Procs |-> <<>>]
  /\ wrote = <<>>
  /\ calls = [p \in Procs |-> <<>>]
  /\ galleryItem = [p \in Procs |-> EmptyFields]
  /\ nraw = NonObj("null")
  /\ ntype = "gallery"
  /\ nout = [done |-> FALSE, out |-> <<>>]
  /\ NoScroller

ListTypes == Types \cup {"", "bogus"}

NextList ==
  \/ \E type \in ListTypes : pc[1] = "idle" /\ GETStart(1, type) /\ UNCHANGED <<normVars, scrollVars>>
  \/ GETList(1) /\ UNCHANGED <<normVars, scrollVars>>
  \/ GETFetch(1) /\ UNCHANGED <<normVars, scrollVars>>

SpecList == InitList /\ [][NextList]_vars

(***************************************************************************)
(* PUT: the update (lines 310-378)                                         *)
(***************************************************************************)
\* blob.pathname.endsWith('.json') && blob.pathname.includes(`/${id}.json`)
isAnyOf(q, id) == q.id = id
isJsonOf(q, id) == q.ext = "json" /\ q.id = id

\* allBlobs.find(...): the first match, or none
findJson(blobs, id) == SelectSeq(blobs, LAMBDA q : isJsonOf(q, id))

jsonFolderMisplaced(type) ==
  CASE type = "gallery" -> "gallery-gallery"
    [] type = "normal" -> "gallery-events"
    [] type = "featured" -> "gallery-featured"
    [] OTHER -> "gallery-events"
\* line 292: (type === 'gallery' || type === 'normal') ? 'gallery-gallery' : ...
jsonFolderPOST(type) ==
  CASE type \in {"gallery", "normal"} -> "gallery-gallery"
    [] type = "featured" -> "gallery-featured"
    [] OTHER -> "gallery-events"
\* line 362: type === 'gallery' ? 'gallery-gallery' : `gallery-${type}`
jsonFolderPUT(type) ==
  CASE type = "gallery" -> "gallery-gallery"
    [] type = "normal" -> "gallery-normal"
    [] type = "featured" -> "gallery-featured"
    [] OTHER -> "gallery-events"

\* const body = await request.json(); const { item } = body (lines 320-321):
\* request.json() throws on a body that is no JSON ("invalid"), and the
\* destructuring throws on the JSON value null ("null"); any other JSON value
\* without an item ("") gives item undefined
throwsOnItem(body) == body \in {"invalid", "null"}

\* lines 311-336: up to the first await; body is "item" when body.item exists
PUTStart(p, type, body, item) ==
  /\ Begin(p, [NoRequest EXCEPT !.method = "PUT", !.type = type,
                  !.body = body, !.item = item])
  /\ IF type = "" THEN Respond(p, 400, <<>>)
     ELSE IF throwsOnItem(body) THEN catchError(p)
     ELSE IF body # "item" \/ ~Truthy(item["id"]) THEN Respond(p, 400, <<>>)
     ELSE IF folderPaths(type) = <<>> THEN Respond(p, 404, <<>>)
     ELSE /\ pc' = [pc EXCEPT ![p] = "PUT_list"]
          /\ resp' = [resp EXCEPT ![p] = NoResponse]
  /\ UNCHANGED <<store, clock, wrote>>

\* one await list(...) of lines 339-344; after the last, lines 346-354
PUTList(p) ==
  /\ pc[p] = "PUT_list"
  /\ \/ /\ catchError(p)
        /\ Called(p, "list", FALSE)
        /\ UNCHANGED <<lidx, allBlobs>>
     \/ LET folder == folderPaths(rq[p].type)[lidx[p] + 1]
            blobs == allBlobs[p] \o listFolder(store, folder)
        IN  /\ Called(p, "list", TRUE)
            /\ lidx' = [lidx EXCEPT ![p] = @ + 1]
            /\ allBlobs' = [allBlobs EXCEPT ![p] = blobs]
            /\ IF lidx[p] + 1 < Len(folderPaths(rq[p].type))
                 THEN UNCHANGED <<pc, resp>>
               ELSE IF findJson(blobs, rq[p].item["id"][2]) = <<>>
                 THEN Respond(p, 404, <<>>)
               ELSE /\ pc' = [pc EXCEPT ![p] = "PUT_del"]
                    /\ UNCHANGED resp
  /\ UNCHANGED <<store, rq, fidx, items, clock, seen, wrote, galleryItem>>

\* await del(existingFile.url), line 357: deleting a blob that is gone
\* succeeds and changes nothing
PUTDel(p) ==
  /\ pc[p] = "PUT_del"
  /\ \/ /\ catchError(p)
        /\ Called(p, "del", FALSE)
        /\ UNCHANGED store
     \/ /\ store' = delBlob(store, findJson(allBlobs[p], rq[p].item["id"][2])[1])
        /\ Called(p, "del", TRUE)
        /\ pc' = [pc EXCEPT ![p] = "PUT_put"]
        /\ UNCHANGED resp
  /\ UNCHANGED <<rq, lidx, allBlobs, fidx, items, clock, seen, wrote, galleryItem>>

\* await put(...), lines 359-373
PUTPut(p) ==
  /\ pc[p] = "PUT_put"
  /\ \/ /\ catchError(p)
        /\ Called(p, "put", FALSE)
        /\ UNCHANGED <<store, wrote>>
     \/ /\ store' = putBlob(store,
                       Path(jsonFolderPUT(rq[p].type), rq[p].item["id"][2], "json"),
                       ObjData(rq[p].item))
        /\ wrote' = Append(wrote, p)
        /\ Called(p, "put", TRUE)
        /\ Respond(p, 200, <<>>)
  /\ UNCHANGED <<rq, lidx, allBlobs, fidx, items, clock, seen, galleryItem>>

(***************************************************************************)
(* Two updates of one stored record in flight together, then a listing.    *)
(***************************************************************************)
Item(id, title) ==
  [EmptyFields EXCEPT !["id"] = id, !["title"] = Str(title), !["isPublished"] = True,
     !["uploadDate"] = Str("2024-01-01")]

PutItems == { Item(Str("a"), "v1"), Item(Str("a"), "v2"), Item(Undefined, "v1") }
PutTypes == Types \cup {"", "bogus"}
Updaters == {2, 3}

InitPut ==
  /\ \E folder \in {"gallery-gallery", "gallery-normal", "gallery-featured"} :
       store = putBlob(EmptyStore, Path(folder, "a", "json"),
                       ObjData(Item(Str("a"), "v0")))
  /\ pc = [p \in Procs |-> "idle"]
  /\ rq = [p \in Procs |-> NoRequest]
  /\ lidx = [p \in Procs |-> 0]
  /\ allBlobs = [p \in Procs |-> <<>>]
  /\ fidx = [p \in Procs |-> 0]
  /\ items = [p \in Procs |-> <<>>]
  /\ resp = [p \in Procs |-> NoResponse]
  /\ clock = StartClock
  /\ seen = [p \in Procs |-> <<>>]
  /\ wrote = <<>>
  /\ calls = [p \in Procs |-> <<>>]
  /\ galleryItem = [p \in Procs |-> EmptyFields]
  /\ nraw = NonObj("null")
  /\ ntype = "gallery"
  /\ nout = [done |-> FALSE, out |-> <<>>]
  /\ NoScroller

NextPut ==
  \/ \E p \in Updaters, type \in PutTypes, body \in {"", "item", "invalid"}, item \in PutItems :
       pc[p] = "idle" /\ PUTStart(p, type, body, item) /\ UNCHANGED <<normVars, scrollVars>>
  \/ \E p \in Updaters : PUTList(p) /\ UNCHANGED <<normVars, scrollVars>>
  \/ \E p \in Updaters : PUTDel(p) /\ UNCHANGED <<normVars, scrollVars>>
  \/ \E p \in Updaters : PUTPut(p) /\ UNCHANGED <<normVars, scrollVars>>
  \/ \E type \in Types :
       /\ pc[1] = "idle" /\ \A p \in Updaters : pc[p] = "done"
       /\ GETStart(1, type) /\ UNCHANGED <<normVars, scrollVars>>
  \/ GETList(1) /\ UNCHANGED <<normVars, scrollVars>>
  \/ GETFetch(1) /\ UNCHANGED <<normVars, scrollVars>>

SpecPut == InitPut /\ [][NextPut]_vars

(***************************************************************************)
(* POST: the create (lines 194-307)                                        *)
(***************************************************************************)
\* the ids a create may generate (line 239: the type, Date.now() and a random
\* suffix): an id that names no blob yet
GenIds == {"b"}
newIds(st) == { id \in GenIds : \A q \in DOMAIN st : q.id # id }

\* lines 234-236: !title || !content || !author
missingField(form) == form.title = "" \/ form.content = "" \/ form.author = ""

\* the literal of lines 255-286; the two new Date() of it read t1 and t2
formItem(id, form, type, t1, t2) ==
  LET isPublished == form.isPublished = "true"
  IN  [EmptyFields EXCEPT
         !["id"] = Str(id),
         !["title"] = Str(form.title),
         !["content"] = Str(form.content),
         !["author"] = Str(form.author),
         !["publishDate"] = Str(toISOString(t1)),
         !["isPublished"] = IF isPublished THEN True ELSE False,
         !["status"] = Str(IF form.status # "" THEN form.status
                           ELSE IF isPublished THEN "published" ELSE "development"),
         !["type"] = Str(type),
         !["store"] = Str(IF form.store # "" THEN form.store ELSE "google-play"),
         !["appCategory"] = Str(IF form.appCategory # "" THEN form.appCategory
                                ELSE "normal"),
         !["name"] = Str(form.title),
         !["developer"] = Str(form.author),
         !["description"] = Str(form.content),
         !["uploadDate"] = Str(toISOString(t2))]

\* galleryItem is built (lines 255-286) and the handler goes on to the put of
\* line 293
BuildItem(p, id, form, type) ==
  \E t1, t2 \in clock..(StartClock + MaxTicks) :
    /\ t1 \in {clock, clock + 1}
    /\ t2 \in {t1, t1 + 1}
    /\ clock' = t2
    /\ galleryItem' = [galleryItem EXCEPT ![p] = formItem(id, form, type, t1, t2)]
    /\ pc' = [pc EXCEPT ![p] = "POST_put"]

\* lines 195-203 and 221-242 (a form-encoded body): up to the first put;
\* body is "invalid" when request.formData() throws
POSTForm(p, type, body, form) ==
  /\ rq' = [rq EXCEPT ![p] = [NoRequest EXCEPT !.method = "POST", !.type = type,
                                 !.body = body, !.form = form]]
  /\ Free(p)
  /\ lidx' = [lidx EXCEPT ![p] = 0]
  /\ allBlobs' = [allBlobs EXCEPT ![p] = <<>>]
  /\ fidx' = [fidx EXCEPT ![p] = 0]
  /\ items' = [items EXCEPT ![p] = <<>>]
  /\ seen' = [seen EXCEPT ![p] = <<>>]
  /\ calls' = [calls EXCEPT ![p] = <<>>]
  /\ IF type = "" THEN Respond(p, 400, <<>>) /\ UNCHANGED <<galleryItem, clock>>
     ELSE IF body = "invalid" THEN catchError(p) /\ UNCHANGED <<galleryItem, clock>>
     ELSE IF missingField(form) THEN Respond(p, 400, <<>>) /\ UNCHANGED <<galleryItem, clock>>
     ELSE \E id \in newIds(store) :
            IF form.file # ""
              THEN /\ galleryItem' =
                        [galleryItem EXCEPT ![p] = [EmptyFields EXCEPT !["id"] = Str(id)]]
                   /\ pc' = [pc EXCEPT ![p] = "POST_img"]
                   /\ resp' = [resp EXCEPT ![p] = NoResponse]
                   /\ UNCHANGED clock
              ELSE /\ BuildItem(p, id, form, type)
                   /\ resp' = [resp EXCEPT ![p] = NoResponse]
  /\ UNCHANGED <<store, wrote>>

\* lines 195-220 (a JSON body): galleryItem = {...item, type}
POSTJson(p, type, body, item) ==
  /\ rq' = [rq EXCEPT ![p] = [NoRequest EXCEPT !.method = "POST", !.type = type,
                                 !.body = body, !.item = item]]
  /\ Free(p)
  /\ lidx' = [lidx EXCEPT ![p] = 0]
  /\ allBlobs' = [allBlobs EXCEPT ![p] = <<>>]
  /\ fidx' = [fidx EXCEPT ![p] = 0]
  /\ items' = [items EXCEPT ![p] = <<>>]
  /\ seen' = [seen EXCEPT ![p] = <<>>]
  /\ calls' = [calls EXCEPT ![p] = <<>>]
  /\ IF type = "" THEN Respond(p, 400, <<>>) /\ UNCHANGED galleryItem
     ELSE IF throwsOnItem(body) THEN catchError(p) /\ UNCHANGED galleryItem
     ELSE IF body # "item" \/ ~Truthy(item["id"])
       THEN Respond(p, 400, <<>>) /\ UNCHANGED galleryItem
     ELSE /\ galleryItem' = [galleryItem EXCEPT ![p] = [item EXCEPT !["type"] = Str(type)]]
          /\ pc' = [pc EXCEPT ![p] = "POST_put"]
          /\ resp' = [resp EXCEPT ![p] = NoResponse]
  /\ UNCHANGED <<store, clock, wrote>>

\* await put(`${imageFolder}/${filename}`, file), lines 245-252, then the
\* literal of lines 255-286; the image goes to the folder of line 248, which
\* is that of line 292
POSTImg(p) ==
  /\ pc[p] = "POST_img"
  /\ \/ /\ catchError(p)
        /\ Called(p, "put", FALSE)
        /\ UNCHANGED <<store, galleryItem, clock>>
     \/ /\ store' = putBlob(store,
                       Path(jsonFolderPOST(rq[p].type), galleryItem[p]["id"][2],
                            rq[p].form.file),
                       OtherData("invalid"))
        /\ Called(p, "put", TRUE)
        /\ BuildItem(p, galleryItem[p]["id"][2], rq[p].form, rq[p].type)
        /\ UNCHANGED resp
  /\ UNCHANGED <<rq, lidx, allBlobs, fidx, items, seen, wrote>>

\* await put(`${jsonFolder}/${jsonFilename}`, JSON.stringify(galleryItem)),
\* lines 289-302; the response carries the item
POSTPut(p) ==
  /\ pc[p] = "POST_put"
  /\ \/ /\ catchError(p)
        /\ Called(p, "put", FALSE)
        /\ UNCHANGED <<store, wrote>>
     \/ /\ store' = putBlob(store,
                       Path(jsonFolderPOST(rq[p].type), galleryItem[p]["id"][2], "json"),
                       ObjData(galleryItem[p]))
        /\ wrote' = Append(wrote, p)
        /\ Called(p, "put", TRUE)
        /\ Respond(p, 200, <<galleryItem[p]>>)
  /\ UNCHANGED <<rq, lidx, allBlobs, fidx, items, clock, seen, galleryItem>>

(***************************************************************************)
(* DELETE (lines 381-439)                                                  *)
(***************************************************************************)
\* blob.pathname.includes(`/${id}.`) && !blob.pathname.endsWith('.json')
isImageOf(q, id) == q.id = id /\ q.ext # "json"

\* allBlobs.find(...) of lines 425-428: the first match, or none
findImage(blobs, id) == SelectSeq(blobs, LAMBDA q : isImageOf(q, id))

\* lines 382-401: up to the first await
DELETEStart(p, type, id) ==
  /\ Begin(p, [NoRequest EXCEPT !.method = "DELETE", !.type = type, !.id = id])
  /\ IF type = "" \/ id = "" THEN Respond(p, 400, <<>>)
     ELSE IF folderPaths(type) = <<>> THEN Respond(p, 404, <<>>)
     ELSE /\ pc' = [pc EXCEPT ![p] = "DELETE_list"]
          /\ resp' = [resp EXCEPT ![p] = NoResponse]
  /\ UNCHANGED <<store, clock, wrote>>

\* one await list(...) of lines 403-409; after the last, lines 411-419
DELETEList(p) ==
  /\ pc[p] = "DELETE_list"
  /\ \/ /\ catchError(p)
        /\ Called(p, "list", FALSE)
        /\ UNCHANGED <<lidx, allBlobs>>
     \/ LET folder == folderPaths(rq[p].type)[lidx[p] + 1]
            blobs == allBlobs[p] \o listFolder(store, folder)
        IN  /\ Called(p, "list", TRUE)
            /\ lidx' = [lidx EXCEPT ![p] = @ + 1]
            /\ allBlobs' = [allBlobs EXCEPT ![p] = blobs]
            /\ IF lidx[p] + 1 < Len(folderPaths(rq[p].type))
                 THEN UNCHANGED <<pc, resp>>
               ELSE IF findJson(blobs, rq[p].id) = <<>>
                 THEN Respond(p, 404, <<>>)
               ELSE /\ pc' = [pc EXCEPT ![p] = "DELETE_del"]
                    /\ UNCHANGED resp
  /\ UNCHANGED <<store, rq, fidx, items, clock, seen, wrote, galleryItem>>

\* await del(jsonFile.url), line 422, and lines 424-434 when no image is found
DELETEDel(p) ==
  /\ pc[p] = "DELETE_del"
  /\ \/ /\ catchError(p)
        /\ Called(p, "del", FALSE)
        /\ UNCHANGED store
     \/ /\ store' = delBlob(store, findJson(allBlobs[p], rq[p].id)[1])
        /\ Called(p, "del", TRUE)
        /\ IF findImage(allBlobs[p], rq[p].id) = <<>>
             THEN Respond(p, 200, <<>>)
             ELSE /\ pc' = [pc EXCEPT ![p] = "DELETE_image"]
                  /\ UNCHANGED resp
  /\ UNCHANGED <<rq, lidx, allBlobs, fidx, items, clock, seen, wrote, galleryItem>>

\* await del(imageFile.url), lines 430-434
DELETEImage(p) ==
  /\ pc[p] = "DELETE_image"
  /\ \/ /\ catchError(p)
        /\ Called(p, "del", FALSE)
        /\ UNCHANGED store
     \/ /\ store' = delBlob(store, findImage(allBlobs[p], rq[p].id)[1])
        /\ Called(p, "del", TRUE)
        /\ Respond(p, 200, <<>>)
  /\ UNCHANGED <<rq, lidx, allBlobs, fidx, items, clock, seen, wrote, galleryItem>>

(***************************************************************************)
(* Creates, updates and deletes one after another on a store that starts   *)
(* empty, then a listing, then one more delete.                            *)
(***************************************************************************)
\* the most JSON blobs written in a behaviour
MaxWrites == 4

Form(title, content, author, isPublished, file) ==
  [NoForm EXCEPT !.title = title, !.content = content, !.author = author,
     !.isPublished = isPublished, !.file = file]

\* form-encoded creates: <<type, body, form>>
FormPosts ==
  { <<type, "form", Form("T", "C", "A", "true", "")>> : type \in Types }
    \cup { <<"gallery", "form", Form("T", "C", "A", "true", "png")>>,
           <<"events", "form", Form("T", "C", "A", "true", "png")>>,
           <<"featured", "form", Form("T", "C", "A", "false", "")>>,
           <<"", "form", Form("T", "C", "A", "true", "")>>,
           <<"gallery", "invalid", NoForm>>,
           <<"gallery", "form", Form("", "C", "A", "true", "")>>,
           <<"featured", "form", Form("T", "", "A", "true", "png")>>,
           <<"normal", "form", Form("T", "C", "", "false", "")>> }

\* JSON bodies of creates and updates: <<type, body, item>>
JsonBodies ==
  { <<type, "item", Item(Str("a"), "v1")>> :
       type \in {"gallery", "normal", "featured", "", "bogus"} }
    \cup { <<"gallery", "item", Item(Undefined, "v1")>>,
           <<"normal", "", EmptyFields>>,
           <<"featured", "null", EmptyFields>>,
           <<"events", "invalid", EmptyFields>> }

\* deletes: <<type, id>>
Deletes ==
  { <<type, id>> : type \in Types, id \in {"a", "b"} }
    \cup { <<"", "a">>, <<"gallery", "">>, <<"bogus", "a">> }

GetTypes == Types \cup {""}
Mutator == 2
Lister == 1
Closer == 3

Init ==
  /\ Quiet
  /\ nraw = NonObj("null")
  /\ ntype = "gallery"
  /\ nout = [done |-> FALSE, out |-> <<>>]
  /\ NoScroller

\* the request called put or del
Reached(p) == \E i \in 1..Len(calls[p]) : calls[p][i].op \in {"put", "del"}

\* the requests made so far are none, or the last of them reached the store;
\* a request that called neither put nor del leaves the store as it was
\* before it, so that what may follow it may follow the request before it
Settled == pc[Mutator] = "idle" \/ (pc[Mutator] = "done" /\ Reached(Mutator))

\* the mutator begins a request when neither the listing nor the closing
\* delete has begun
Mutating == Settled /\ pc[Lister] = "idle" /\ pc[Closer] = "idle"
Writing == Mutating /\ Len(wrote) < MaxWrites

\* the mutator's last request was a delete that answered success
Deleted ==
  /\ pc[Mutator] = "done" /\ rq[Mutator].method = "DELETE"
  /\ resp[Mutator].status = 200

Next ==
  \/ \E r \in FormPosts :
       Writing /\ POSTForm(Mutator, r[1], r[2], r[3]) /\ UNCHANGED <<normVars, scrollVars>>
  \/ \E r \in JsonBodies :
       Writing /\ r[1] # "bogus" /\ POSTJson(Mutator, r[1], r[2], r[3]) /\ UNCHANGED <<normVars, scrollVars>>
  \/ POSTImg(Mutator) /\ UNCHANGED <<normVars, scrollVars>>
  \/ POSTPut(Mutator) /\ UNCHANGED <<normVars, scrollVars>>
  \/ \E r \in JsonBodies :
       Writing /\ PUTStart(Mutator, r[1], r[2], r[3]) /\ UNCHANGED <<normVars, scrollVars>>
  \/ PUTList(Mutator) /\ UNCHANGED <<normVars, scrollVars>>
  \/ PUTDel(Mutator) /\ UNCHANGED <<normVars, scrollVars>>
  \/ PUTPut(Mutator) /\ UNCHANGED <<normVars, scrollVars>>
  \/ \E r \in Deletes :
       Mutating /\ DELETEStart(Mutator, r[1], r[2]) /\ UNCHANGED <<normVars, scrollVars>>
  \/ \E p \in {Mutator, Closer} : DELETEList(p) /\ UNCHANGED <<normVars, scrollVars>>
  \/ \E p \in {Mutator, Closer} : DELETEDel(p) /\ UNCHANGED <<normVars, scrollVars>>
  \/ \E p \in {Mutator, Closer} : DELETEImage(p) /\ UNCHANGED <<normVars, scrollVars>>
  \/ \E type \in GetTypes :
       /\ pc[Lister] = "idle" /\ Settled /\ pc[Closer] = "idle"
       /\ GETStart(Lister, type) /\ UNCHANGED <<normVars, scrollVars>>
  \/ GETList(Lister) /\ UNCHANGED <<normVars, scrollVars>>
  \/ GETFetch(Lister) /\ UNCHANGED <<normVars, scrollVars>>
  \/ /\ pc[Closer] = "idle" /\ Deleted /\ pc[Lister] = "idle"
     /\ DELETEStart(Closer, rq[Mutator].type, rq[Mutator].id) /\ UNCHANGED <<normVars, scrollVars>>

Spec == Init /\ [][Next]_vars

(***************************************************************************)
(* Properties of the normalisation (SpecNorm)                              *)
(***************************************************************************)
Normalised == nout.done /\ Len(nout.out) = 1
NItem == nout.out[1]
IsStr(v) == v[1] = "string"

\* canonical field, modern raw field, legacy raw field
AliasPairs ==
  { <<"title", "title", "name">>, <<"content", "content", "description">>,
    <<"author", "author", "developer">> }

\* C2 as stated: whenever a modern field and its legacy alias both hold a
\* string and the two strings differ, the canonical field carries the modern
\* field's string.
C2_ModernAlwaysWins ==
  Normalised =>
    \A a \in AliasPairs :
      (IsStr(nraw.f[a[2]]) /\ IsStr(nraw.f[a[3]]) /\ nraw.f[a[2]] # nraw.f[a[3]])
        => NItem[a[1]] = nraw.f[a[2]][2]

\* C2 amended: whenever a modern field holds a non-empty string and its legacy
\* alias holds a different string, the canonical field carries the modern
\* field's string and not the alias's.
C2_ModernWinsWhenNonEmpty ==
  Normalised =>
    \A a \in AliasPairs :
      ( IsStr(nraw.f[a[2]]) /\ nraw.f[a[2]][2] # ""
        /\ IsStr(nraw.f[a[3]]) /\ nraw.f[a[2]] # nraw.f[a[3]] )
        => (NItem[a[1]] = nraw.f[a[2]][2] /\ NItem[a[1]] # nraw.f[a[3]][2])

C2_Witness ==
  /\ Normalised
  /\ nraw.f["title"] = Str("Foo") /\ nraw.f["name"] = Str("Bar")
  /\ nraw.f["content"] = Str("Body") /\ nraw.f["description"] = Str("Desc")
  /\ nraw.f["author"] = Str("Ann") /\ nraw.f["developer"] = Str("Dev")
  /\ NItem.title = "Foo" /\ NItem.content = "Body" /\ NItem.author = "Ann"

\* C4: in every normalised record, isPublished is true exactly when the
\* resolved status is 'published' or the raw isPublished is the boolean true.
C4_PublishedIff ==
  Normalised =>
    (NItem.isPublished <=>
       (NItem.status = "published" \/ nraw.f["isPublished"] = True))

C4_Witness ==
  /\ Normalised
  /\ nraw.f["status"] \in {Str("in-review"), Str("development")}
  /\ nraw.f["isPublished"] = True
  /\ NItem.status = nraw.f["status"][2]
  /\ NItem.isPublished

\* C8: a raw status that is one of the three status strings is kept; any other
\* raw status (absent, not a string, another string) resolves to 'published'
\* when the raw isPublished is the boolean true and to 'development' otherwise.
C8_StatusResolution ==
  Normalised =>
    IF nraw.f["status"] \in {Str("published"), Str("in-review"), Str("development")}
      THEN NItem.status = nraw.f["status"][2]
      ELSE IF nraw.f["isPublished"] = True
        THEN NItem.status = "published"
        ELSE NItem.status = "development"

C8_Witness ==
  /\ Normalised
  /\ nraw.f["status"] = Str("archived")
  /\ nraw.f["isPublished"] = True
  /\ NItem.status = "published"

\* C10: the normalised type is the raw type when that is gallery, featured,
\* events or normal, whatever type was requested; otherwise it is the type
\* parameter of the request.
C10_TypeResolution ==
  Normalised =>
    IF nraw.f["type"] \in {Str("gallery"), Str("featured"), Str("events"), Str("normal")}
      THEN NItem.type = nraw.f["type"][2]
      ELSE NItem.type = ntype

C10_Witness ==
  /\ Normalised
  /\ nraw.f["type"] = Str("featured")
  /\ ntype = "gallery"
  /\ NItem.type = "featured"

(***************************************************************************)
(* Properties of the listing (SpecList)                                    *)
(***************************************************************************)
Listed == pc[1] = "done" /\ rq[1].method = "GET" /\ resp[1].status = 200
Body == resp[1].body
InBody(it) == \E i \in 1..Len(Body) : Body[i] = it

\* a raw value that is an object with a non-empty string id
HasStringId(raw) ==
  raw.k = "object" /\ raw.f["id"][1] = "string" /\ raw.f["id"][2] # ""

\* C1: the listing is non-increasing by the time its records' dates denote,
\* and records whose dates denote the same time are in the order in which
\* they were read.  Records whose date denotes no time are left out of the
\* comparison.
C1_SortedStable ==
  Listed =>
    /\ \A i, j \in 1..Len(Body) :
         (i < j /\ sortTime(Body[i]) # NaN /\ sortTime(Body[j]) # NaN)
           => sortTime(Body[i]) >= sortTime(Body[j])
    /\ \A t \in 0..Len(IsoTable) :
         SelectSeq(Body, LAMBDA it : sortTime(it) = t)
           = SelectSeq(items[1], LAMBDA it : sortTime(it) = t /\ InBody(it))

\* C5: a listing of 'featured' or 'events' holds no record whose isPublished
\* is false.
C5_FeaturedOnlyPublished ==
  (Listed /\ rq[1].type \in {"featured", "events"}) =>
    \A i \in 1..Len(Body) : Body[i].isPublished

C5_Witness ==
  /\ Listed /\ rq[1].type = "featured"
  /\ \E i \in 1..Len(items[1]) :
       /\ items[1][i].status = "in-review" /\ ~items[1][i].isPublished
       /\ ~InBody(items[1][i])
  /\ Len(Body) > 0

\* C6: in a listing of 'gallery' or 'normal', a normalised record is returned
\* exactly when its isPublished is true or its status is 'in-review'.
C6_GalleryFilter ==
  (Listed /\ rq[1].type \in {"gallery", "normal"}) =>
    /\ \A i \in 1..Len(items[1]) :
         InBody(items[1][i])
           <=> (items[1][i].isPublished \/ items[1][i].status = "in-review")
    /\ \A i \in 1..Len(Body) : \E j \in 1..Len(items[1]) : items[1][j] = Body[i]
    /\ Len(Body) <= Len(items[1])

C6_Witness ==
  /\ Listed /\ rq[1].type = "gallery"
  /\ \E i \in 1..Len(Body) : Body[i].status = "in-review" /\ ~Body[i].isPublished
  /\ \E i \in 1..Len(items[1]) :
       /\ items[1][i].status = "development" /\ ~items[1][i].isPublished
       /\ ~InBody(items[1][i])

\* C7: of the raw values read, whole bodies and array elements alike, exactly
\* the objects with a non-empty string id give a record, in the order read.
C7_Rejection ==
  Listed =>
    LET good == SelectSeq(seen[1], HasStringId)
    IN  /\ Len(items[1]) = Len(good)
        /\ \A i \in 1..Len(good) : items[1][i].id = good[i].f["id"][2]

C7_Witness ==
  /\ Listed
  /\ \E i, j, k \in 1..Len(seen[1]) :
       /\ i < j /\ j < k
       /\ ~HasStringId(seen[1][i]) /\ seen[1][i].k = "object"
       /\ ~HasStringId(seen[1][j]) /\ seen[1][j].k = "null"
       /\ HasStringId(seen[1][k])
  /\ Len(items[1]) > 0

\* C9: every record a listing returns has a status among published,
\* in-review and development.
C9_StatusClosed ==
  Listed => \A i \in 1..Len(Body) : Body[i].status \in {"published", "in-review", "development"}

C9_Witness ==
  /\ Listed
  /\ \E i \in 1..Len(seen[1]) : seen[1][i].f["status"] = Str("archived")
  /\ \E i \in 1..Len(Body) : Body[i].id = "x"

(***************************************************************************)
(* Properties of concurrent updates (SpecPut)                              *)
(***************************************************************************)
\* both updates were of one id, under types that resolve to the same folders,
\* and both answered success
BothUpdated ==
  /\ \A p \in Updaters : pc[p] = "done" /\ rq[p].method = "PUT" /\ resp[p].status = 200
  /\ rq[2].item["id"] = rq[3].item["id"]
  /\ folderPaths(rq[2].type) = folderPaths(rq[3].type)

\* the listing that followed read every JSON blob it enumerated
ListedAll == Listed /\ fidx[1] = Len(seen[1])

\* C3: after two updates of one id that both succeeded, a listing of their
\* category returns that id once, with the content of the update that wrote
\* last.
C3_LastWriteWins ==
  (BothUpdated /\ ListedAll /\ folderPaths(rq[1].type) = folderPaths(rq[2].type)) =>
    LET mine == SelectSeq(Body, LAMBDA it : it.id = rq[2].item["id"][2])
    IN  /\ Len(mine) = 1
        /\ mine[1].title = rq[wrote[Len(wrote)]].item["title"][2]

(***************************************************************************)
(* Properties of creates, updates and deletes one after another (Spec)     *)
(***************************************************************************)
Done(p) == pc[p] = "done"
CallsOf(p, op) == SelectSeq(calls[p], LAMBDA c : c.op = op)
AllOk(cs) == \A i \in 1..Len(cs) : cs[i].ok

\* the id an update or a delete names
IdOf(r) == IF r.method = "PUT" THEN r.item["id"][2] ELSE r.id

\* the request carries its type and its id
WellFormed(r) ==
  /\ r.type # ""
  /\ IF r.method = "DELETE" THEN r.id # ""
     ELSE r.body = "item" /\ Truthy(r.item["id"])

\* every folder of the request's type was enumerated, and no pathname
\* returned is <id>.json
NoneEnumerated(p) ==
  /\ Len(CallsOf(p, "list")) = Len(folderPaths(rq[p].type))
  /\ AllOk(CallsOf(p, "list"))
  /\ \A i \in 1..Len(allBlobs[p]) :
       ~(allBlobs[p][i].id = IdOf(rq[p]) /\ allBlobs[p][i].ext = "json")

MissingParameter(r) ==
  /\ r.method # ""
  /\ \/ r.type = ""
     \/ r.method = "DELETE" /\ r.id = ""
     \/ /\ r.method \in {"PUT", "POST"}
        /\ r.body \in {"", "item", "null"}
        /\ r.body # "item" \/ ~Truthy(r.item["id"])

\* C12: a request that lacks a parameter answers 400 and has made no storage
\* call.
C12_MissingParameter ==
  \A p \in Procs :
    (Done(p) /\ MissingParameter(rq[p])) =>
      (resp[p].status = 400 /\ calls[p] = <<>>)

(***************************************************************************)
(* Failures during a listing (SpecList)                                    *)
(***************************************************************************)
RECURSIVE readRaws(_, _)
\* the raw values of the bodies, among files, whose fetch succeeded
readRaws(files, fetches) ==
  IF files = <<>> \/ fetches = <<>> THEN <<>>
  ELSE (IF Head(fetches).ok THEN rawsOf(store[Head(files)]) ELSE <<>>)
         \o readRaws(Tail(files), Tail(fetches))

\* C13: a listing that went on to fetch answers success whichever fetches
\* failed; every JSON blob enumerated was fetched once, the records are those
\* of the bodies that were fetched and parsed, in the order read, and what is
\* returned is these records filtered and sorted.
C13_SkipAndContinue ==
  (Done(Lister) /\ rq[Lister].method = "GET" /\ CallsOf(Lister, "fetch") # <<>>) =>
    LET files == jsonFilesOf(allBlobs[Lister])
        fetches == CallsOf(Lister, "fetch")
        good == SelectSeq(readRaws(files, fetches), HasStringId)
    IN  /\ resp[Lister].status = 200
        /\ Len(fetches) = Len(files)
        /\ Len(items[Lister]) = Len(good)
        /\ \A i \in 1..Len(good) : items[Lister][i].id = good[i].f["id"][2]
        /\ Body = arraySort(filterItems(items[Lister], rq[Lister].type))

\* one fetch failed of a body that holds a record, another succeeded and its
\* record is returned
C13_Witness ==
  /\ Listed
  /\ LET files == jsonFilesOf(allBlobs[Lister])
         fetches == CallsOf(Lister, "fetch")
     IN  /\ Len(fetches) = 2
         /\ ~fetches[1].ok /\ fetches[2].ok
         /\ \E i \in 1..Len(rawsOf(store[files[1]])) :
              HasStringId(rawsOf(store[files[1]])[i])
         /\ store[files[2]].k = "object"
  /\ Len(Body) = 1

\* C14: a listing one of whose enumerations failed answers 500 with no
\* records, and has made no call after the enumeration that failed.
C14_TotalFailure ==
  (Done(Lister) /\ rq[Lister].method = "GET" /\ ~AllOk(CallsOf(Lister, "list"))) =>
    /\ resp[Lister].status = 500
    /\ resp[Lister].body = <<>>
    /\ CallsOf(Lister, "fetch") = <<>>
    /\ AllOk(SubSeq(calls[Lister], 1, Len(calls[Lister]) - 1))

\* the first folder was enumerated and held blobs, the second enumeration
\* failed
C14_Witness ==
  /\ Done(Lister) /\ rq[Lister].method = "GET"
  /\ calls[Lister] = << [op |-> "list", ok |-> TRUE], [op |-> "list", ok |-> FALSE] >>
  /\ jsonFilesOf(allBlobs[Lister]) # <<>>
  /\ resp[Lister].status = 500

(***************************************************************************)
(* Properties of creates, updates and deletes, and the listing after them  *)
(* (Spec)                                                                  *)
(***************************************************************************)
\* the listing answered success and every fetch of it succeeded
ListedEverything == Listed /\ AllOk(CallsOf(Lister, "fetch"))

\* the listing reads the folders of the type of the mutator's last request
SameCategory == folderPaths(rq[Lister].type) = folderPaths(rq[Mutator].type)

\* the mutator's last request was a form-encoded create with the publish flag
\* set, which answered success
Created ==
  /\ Done(Mutator) /\ rq[Mutator].method = "POST" /\ rq[Mutator].body = "form"
  /\ rq[Mutator].form.isPublished = "true"
  /\ resp[Mutator].status = 200

\* C15: after a form-encoded create under a type, with the publish flag set,
\* the listing of that type holds a record with the id the create returned,
\* the title, content and author of the form, and that type.
C15_CreateThenList ==
  (Created /\ ListedEverything /\ rq[Lister].type = rq[Mutator].type) =>
    \E i \in 1..Len(Body) :
      /\ Body[i].id = resp[Mutator].body[1]["id"][2]
      /\ Body[i].title = rq[Mutator].form.title
      /\ Body[i].content = rq[Mutator].form.content
      /\ Body[i].author = rq[Mutator].form.author
      /\ Body[i].type = rq[Mutator].type

\* a create under 'normal', listed beside a record created before it
C15_Witness ==
  /\ Created /\ ListedEverything
  /\ rq[Mutator].type = "normal" /\ rq[Lister].type = "normal"
  /\ Len(Body) = 2
  /\ \E i \in 1..2 : Body[i].id = "b" /\ Body[i].title = "T" /\ Body[i].type = "normal"

\* a JSON blob of the id is stored under a folder of the type
Stored(type, id) ==
  \E i \in 1..Len(folderPaths(type)) :
    Path(folderPaths(type)[i], id, "json") \in DOMAIN store

\* the listing holds a record of the id
Lists(id) == \E i \in 1..Len(Body) : Body[i].id = id

\* the mutator's last request was an update whose del succeeded and whose put
\* failed
WriteFailed ==
  /\ Done(Mutator) /\ rq[Mutator].method = "PUT"
  /\ CallsOf(Mutator, "del") = << [op |-> "del", ok |-> TRUE] >>
  /\ CallsOf(Mutator, "put") = << [op |-> "put", ok |-> FALSE] >>

\* C16: an update whose del succeeded and whose put failed answers 500 and
\* leaves no JSON blob of the id under the folders of its type; a listing of
\* the type that follows holds no record of the id.
C16_NoRollback ==
  WriteFailed =>
    /\ resp[Mutator].status = 500
    /\ ~Stored(rq[Mutator].type, IdOf(rq[Mutator]))
    /\ (ListedEverything /\ SameCategory) => ~Lists(IdOf(rq[Mutator]))

\* C17: after a delete that answered success, a listing of the type holds no
\* record of the id, and a second delete of the type and id answers 404.
C17_DeleteComplete ==
  Deleted =>
    /\ (ListedEverything /\ SameCategory) => ~Lists(rq[Mutator].id)
    /\ Done(Closer) => resp[Closer].status \in {404, 500}

\* C18: a listing holds no two records of one id, and no id has a JSON blob
\* under two folders of one type.
C18_UniqueIds ==
  /\ Listed => \A i, j \in 1..Len(Body) : Body[i].id = Body[j].id => i = j
  /\ \A type \in Types, id \in {"a", "b"} :
       Cardinality({ i \in 1..Len(folderPaths(type)) :
                       Path(folderPaths(type)[i], id, "json") \in DOMAIN store }) <= 1

(***************************************************************************)
(* Properties of the scroll animation (SpecScroll)                         *)
(***************************************************************************)
Animating == scrollStateRef # NoState

\* between handlers: at most one callback is pending, and the two refs are
\* set together, the handle being that of the pending callback
OneAnimation ==
  /\ Cardinality(rafQueue) <= 1
  /\ (scrollAnimRef = NoHandle) <=> (scrollStateRef = NoState)
  /\ Animating => (rafQueue = {scrollAnimRef} /\ scrollStateRef.to = clicked.to)
  /\ ~Animating => rafQueue = {}

\* a step that moves the scroller moves it nearer the target of the last click
TowardTarget ==
  scrollLeft' # scrollLeft =>
    /\ clicked.n > 0 /\ clicked' = clicked
    /\ Abs(clicked.to - scrollLeft') < Abs(clicked.to - scrollLeft)

\* the step in which the animation ends
Ends == Animating /\ scrollStateRef' = NoState

\* a frame, no click, whose time is the animation's start plus its duration,
\* or later
Due ==
  /\ Animating /\ clicked' = clicked
  /\ perfNow' - scrollStateRef.start >= scrollStateRef.duration

\* C19 as stated: one animation at a time, a callback pending as long as it
\* lasts; the scroller is moved only toward the target of the last click; a
\* frame at the end of the duration ends the animation, and the animation
\* ends with the scroller at that target and both refs cleared.
C19_SingleAnimation ==
  /\ []OneAnimation
  /\ [][TowardTarget]_vars
  /\ [][Due => Ends]_vars
  /\ [][Ends => (scrollLeft' = clicked.to /\ scrollAnimRef' = NoHandle)]_vars

\* C19 amended: as stated, but the animation ends with the scroller at the
\* target brought within what the scroller can scroll, where it stays until
\* the next click.
C19_SingleAnimationClamped ==
  /\ []OneAnimation
  /\ [][TowardTarget]_vars
  /\ [][Due => Ends]_vars
  /\ [][Ends => ( /\ scrollLeft' = setScrollLeft(scrollerRef, clicked.to)
                  /\ scrollAnimRef' = NoHandle )]_vars
  /\ []((~Animating /\ clicked.n > 0 /\ scrollerRef.mounted)
          => scrollLeft = setScrollLeft(scrollerRef, clicked.to))

\* a click during an animation, whose own animation has ended at its target
C19_Witness ==
  /\ clicked.n = 2 /\ ~Animating /\ scrollerRef.mounted
  /\ rafNext > 3
  /\ scrollLeft = clicked.to
  /\ scrollLeft \notin {0, 400, scrollerRef.scrollWidth - scrollerRef.clientWidth}

====
